---- MODULE Spec2Model ----
(***************************************************************************)
(* Model of the ustar header reader: PosixHeader / Header decoding         *)
(* (src/src/common/meta.rs), the octal helpers (src/src/common/mod.rs)     *)
(* and the HeadersParser iterator (src/src/common/read.rs).                *)
(*                                                                         *)
(* A block is a function 0..511 -> 0..255.  A string is a sequence of      *)
(* character codes.  A source is a sequence of whole blocks followed by    *)
(* `tail` extra bytes (fewer than one block).                              *)
(***************************************************************************)
EXTENDS Integers, Sequences, FiniteSets, TLC

VARIABLES source, tail, pos, offset, iter_valid_headers, iter_invalid_headers,
          iter_zeroes, panicked, last, yielded, nones, reads, decoded,
          block, result, size_arg, blocks_offset

vars == <<source, tail, pos, offset, iter_valid_headers, iter_invalid_headers,
          iter_zeroes, panicked, last, yielded, nones, reads, decoded,
          block, result, size_arg, blocks_offset>>

streamVars == <<source, tail, pos, offset, iter_valid_headers,
                iter_invalid_headers, iter_zeroes, panicked, last, yielded,
                nones, reads, decoded>>

decodeVars == <<block, result>>

blocksVars == <<size_arg, blocks_offset>>

-----------------------------------------------------------------------------
(* Program constants *)

BLOCK_SIZE == 512

HEADER_SIZE == 500

ASCII_SPACE == 32

\* b"ustar "
HEADER_MAGIC == <<117, 115, 116, 97, 114, 32>>

\* HeaderProperty: byte ranges start..end (end exclusive)
Name == [start |-> 0, end |-> 100]

Mode == [start |-> 100, end |-> 108]

Size == [start |-> 124, end |-> 136]

Mtime == [start |-> 136, end |-> 148]

Chksum == [start |-> 148, end |-> 156]

Typeflag == [start |-> 156, end |-> 157]

Linkname == [start |-> 157, end |-> 257]

Magic == [start |-> 257, end |-> 263]

Uname == [start |-> 265, end |-> 297]

Gname == [start |-> 297, end |-> 329]

\* Range::contains
contains(r, i) == r.start <= i /\ i < r.end

\* HeaderCheck
Valid == [tag |-> "Valid", not_ustar |-> FALSE]

Invalid(nu) == [tag |-> "Invalid", not_ustar |-> nu]

Zeroes == [tag |-> "Zeroes", not_ustar |-> FALSE]

\* Outcome of a call that unwinds (Result::unwrap on Err)
Panic == [tag |-> "Panic", not_ustar |-> FALSE]

\* U+FFFD, what from_utf8_lossy puts in place of a byte that is not UTF-8
REPLACEMENT_CHARACTER == 65533

-----------------------------------------------------------------------------
(* Octal helpers: common/mod.rs *)

\* offset_by_blocks without the extra block for a remainder
offset_by_blocks_rounds_down(bytes_count) ==
    (bytes_count \div BLOCK_SIZE) * BLOCK_SIZE

\* offset_by_blocks counting blocks instead of bytes
offset_by_blocks_in_blocks(bytes_count) ==
    (bytes_count + BLOCK_SIZE - 1) \div BLOCK_SIZE

\* offset_by_blocks adding a block even when nothing remains
offset_by_blocks_always_adds(bytes_count) ==
    (bytes_count \div BLOCK_SIZE) * BLOCK_SIZE + BLOCK_SIZE

\* Giver bytes count return offset that divisible by blocks size.
offset_by_blocks(bytes_count) ==
    LET off == (bytes_count \div BLOCK_SIZE) * BLOCK_SIZE
    IN  IF bytes_count % BLOCK_SIZE = 0 THEN off ELSE off + BLOCK_SIZE

\* str::trim_end_matches(char::from(0))
RECURSIVE trim_end_matches(_)
trim_end_matches(s) ==
    IF Len(s) > 0 /\ s[Len(s)] = 0
    THEN trim_end_matches(SubSeq(s, 1, Len(s) - 1))
    ELSE s

\* str::trim_start_matches(char::from(0))
RECURSIVE trim_start_matches(_)
trim_start_matches(s) ==
    IF Len(s) > 0 /\ s[1] = 0
    THEN trim_start_matches(Tail(s))
    ELSE s

\* str::trim_matches(char::from(0))
trim_matches(s) == trim_end_matches(trim_start_matches(s))

\* char::to_digit(8): characters '0'..'7'
IsOctalDigit(c) == 48 <= c /\ c <= 55

\* value of a non-empty run of octal digits, most significant first
RECURSIVE OctalValue(_, _)
OctalValue(s, acc) ==
    IF s = <<>> THEN acc ELSE OctalValue(Tail(s), acc * 8 + (s[1] - 48))

AllOctal(s) == \A i \in 1..Len(s) : IsOctalDigit(s[i])

Err == [ok |-> FALSE, val |-> 0]

Ok(v) == [ok |-> TRUE, val |-> v]

\* {integer}::from_str_radix(src, 8): an empty string, a lone sign and any
\* non-digit are errors; '+' is accepted by every integer type, '-' only by
\* the signed ones.
from_str_radix(src, is_signed_ty) ==
    IF src = <<>> THEN Err
    ELSE IF Len(src) = 1 /\ (src[1] = 43 \/ src[1] = 45) THEN Err
    ELSE IF src[1] = 43
         THEN IF AllOctal(Tail(src)) THEN Ok(OctalValue(Tail(src), 0)) ELSE Err
    ELSE IF src[1] = 45 /\ is_signed_ty
         THEN IF AllOctal(Tail(src)) THEN Ok(0 - OctalValue(Tail(src), 0)) ELSE Err
    ELSE IF AllOctal(src) THEN Ok(OctalValue(src, 0)) ELSE Err

\* Just read usize from string
parse_usize(string) == from_str_radix(trim_end_matches(string), FALSE)

\* Just read isize from string
parse_isize(string) == from_str_radix(trim_matches(string), TRUE)

\* Result::unwrap_or_default
unwrap_or_default(r) == IF r.ok THEN r.val ELSE 0

-----------------------------------------------------------------------------
(* PosixHeader: common/meta.rs *)

\* Extract property from raw buffer as it is.
extract(buffer, bytes_range) ==
    [i \in 1..(bytes_range.end - bytes_range.start) |->
        buffer[bytes_range.start + i - 1]]

\* index (1-based) of the first NUL of v, Len(v) + 1 when there is none
RECURSIVE FirstNul(_, _)
FirstNul(v, i) ==
    IF i > Len(v) THEN i
    ELSE IF v[i] = 0 THEN i
    ELSE FirstNul(v, i + 1)

\* String::from_utf8_lossy on bytes that are ASCII or stand alone outside
\* any UTF-8 sequence: ASCII is kept, every other byte becomes U+FFFD
from_utf8_lossy(v) ==
    [i \in 1..Len(v) |-> IF v[i] < 128 THEN v[i] ELSE REPLACEMENT_CHARACTER]

extract_string(buffer, bytes_range) ==
    LET v == extract(buffer, bytes_range)
        n == FirstNul(v, 1)
    IN  from_utf8_lossy(SubSeq(v, 1, n - 1))

\* value as i8
as_i8(value) == IF value >= 128 THEN value - 256 ELSE value

\* one iteration of the loop of validate: the value byte i adds to the sums
summand(buffer, i) == IF contains(Chksum, i) THEN ASCII_SPACE ELSE buffer[i]

\* unsigned_sum over the iterations lo..hi-1 of the loop (lo < hi)
RECURSIVE unsigned_sum(_, _, _)
unsigned_sum(buffer, lo, hi) ==
    IF hi - lo = 1 THEN summand(buffer, lo)
    ELSE LET mid == (lo + hi) \div 2
         IN  unsigned_sum(buffer, lo, mid) + unsigned_sum(buffer, mid, hi)

\* signed_sum over the iterations lo..hi-1 of the loop (lo < hi)
RECURSIVE signed_sum(_, _, _)
signed_sum(buffer, lo, hi) ==
    IF hi - lo = 1 THEN as_i8(summand(buffer, lo))
    ELSE LET mid == (lo + hi) \div 2
         IN  signed_sum(buffer, lo, mid) + signed_sum(buffer, mid, hi)

\* the zeroes flag after the loop
zeroes(buffer) == \A i \in 0..(HEADER_SIZE - 1) : buffer[i] = 0

\* validate comparing the checksum with the unsigned sum only
validate_unsigned_only(buffer) ==
    IF zeroes(buffer) THEN Zeroes
    ELSE LET checksum_raw == extract_string(buffer, Chksum)
             parsed == parse_isize(checksum_raw)
         IN  IF ~parsed.ok THEN Panic
             ELSE IF parsed.val < 0 THEN Invalid(FALSE)
             ELSE IF unsigned_sum(buffer, 0, HEADER_SIZE) # parsed.val
                  THEN Invalid(FALSE)
             ELSE IF extract(buffer, Magic) = HEADER_MAGIC
                  THEN Valid
                  ELSE Invalid(TRUE)

\* validate without the comparison of the magic field
validate_without_magic(buffer) ==
    IF zeroes(buffer) THEN Zeroes
    ELSE LET checksum_raw == extract_string(buffer, Chksum)
             parsed == parse_isize(checksum_raw)
         IN  IF ~parsed.ok THEN Panic
             ELSE IF parsed.val < 0 THEN Invalid(FALSE)
             ELSE IF unsigned_sum(buffer, 0, HEADER_SIZE) # parsed.val
                     /\ signed_sum(buffer, 0, HEADER_SIZE) # parsed.val
                  THEN Invalid(FALSE)
             ELSE Valid

\* Does header checksum validation
validate(buffer) ==
    IF zeroes(buffer) THEN Zeroes
    ELSE LET checksum_raw == extract_string(buffer, Chksum)
             parsed == parse_isize(checksum_raw)
         IN  IF ~parsed.ok THEN Panic
             ELSE IF parsed.val < 0 THEN Invalid(FALSE)
             ELSE IF unsigned_sum(buffer, 0, HEADER_SIZE) # parsed.val
                     /\ signed_sum(buffer, 0, HEADER_SIZE) # parsed.val
                  THEN Invalid(FALSE)
             ELSE IF extract(buffer, Magic) = HEADER_MAGIC
                  THEN Valid
                  ELSE Invalid(TRUE)

\* PosixHeader::size
size(buffer) == unwrap_or_default(parse_usize(extract_string(buffer, Size)))

\* TYPE_FLAGS and pair_match_value(..).unwrap_or(HeaderType::Unknown)
typeflag(buffer) ==
    LET flag == extract(buffer, Typeflag)[1]
    IN  CASE flag = 48 -> "Reg"
          [] flag = 49 -> "Link"
          [] flag = 50 -> "Sym"
          [] flag = 51 -> "Chr"
          [] flag = 52 -> "Blk"
          [] flag = 53 -> "Dir"
          [] flag = 54 -> "Fifo"
          [] flag = 55 -> "Cont"
          [] flag = 120 -> "Xhd"
          [] flag = 103 -> "Xlg"
          [] flag = 0 -> "Reg"
          [] OTHER -> "Unknown"

\* PosixHeader::from followed by Header::from: the Header built from a block
\* read with the parser at `off`; check = Panic when validate unwinds
HeaderFrom(off, buffer) ==
    [offset |-> off,
     check |-> validate(buffer),
     size |-> size(buffer),
     typeflag |-> typeflag(buffer),
     name |-> <<>>,
     linkname |-> <<>>,
     uname |-> <<>>,
     gname |-> <<>>,
     mode |-> 0,
     mtime |-> 0]

-----------------------------------------------------------------------------
(* Input blocks: what a tar writer lays out in the fixed byte ranges *)

ZeroBlock == (0 :> 0) @@ [i \in 0..(BLOCK_SIZE - 1) |-> 0]

\* block b with `bytes` written from index start on
Put(b, start, bytes) ==
    [i \in start..(start + Len(bytes) - 1) |-> bytes[i - start + 1]] @@ b

\* n as `width` octal digit characters, most significant first
RECURSIVE ToOctal(_, _)
ToOctal(n, width) ==
    IF width = 0 THEN <<>>
    ELSE Append(ToOctal(n \div 8, width - 1), 48 + (n % 8))

\* a size field as writers produce it: 11 octal digits and a NUL
SizeField(n) == Append(ToOctal(n, 11), 0)

\* sum of bytes lo..hi-1 with the checksum field counted as spaces, each
\* byte taken unsigned (signed = FALSE) or as a signed char (signed = TRUE)
RECURSIVE ByteSum(_, _, _, _)
ByteSum(b, lo, hi, signed) ==
    IF hi - lo = 1
    THEN LET v == IF 148 <= lo /\ lo <= 155 THEN 32 ELSE b[lo]
         IN  IF signed /\ v > 127 THEN v - 256 ELSE v
    ELSE ByteSum(b, lo, (lo + hi) \div 2, signed)
         + ByteSum(b, (lo + hi) \div 2, hi, signed)

\* the eight bytes of the checksum field for each way of filling it
ChkBytes(b, how) ==
    LET u == ByteSum(b, 0, 500, FALSE)
        s == ByteSum(b, 0, 500, TRUE)
    IN  CASE how = "unsigned" -> ToOctal(u, 6) \o <<0, 32>>
          [] how = "signed" -> ToOctal(s, 6) \o <<0, 32>>
          [] how = "wrong" -> ToOctal(u + 1, 6) \o <<0, 32>>
          [] how = "plus" -> <<43>> \o ToOctal(u, 6) \o <<0>>
          [] how = "negative" -> <<45>> \o ToOctal(u, 6) \o <<0>>
          [] how = "empty" -> <<0, 0, 0, 0, 0, 0, 0, 0>>
          [] how = "spaces" -> <<32, 32, 32, 32, 32, 32, 32, 32>>
          [] how = "space_end" -> ToOctal(u, 6) \o <<32, 0>>
          [] how = "letter" -> ToOctal(u, 5) \o <<120, 0, 32>>
          [] how = "highbit" -> <<255>> \o ToOctal(u, 6) \o <<0>>

\* a block with the given field contents and byte `pad` at index 511
MkBlock(d) ==
    LET b1 == Put(ZeroBlock, Name.start, d.name)
        b2 == Put(b1, Size.start, d.size)
        b3 == Put(b2, Typeflag.start, <<d.flag>>)
        b4 == Put(b3, Magic.start, d.magic)
        b5 == Put(b4, BLOCK_SIZE - 1, <<d.pad>>)
    IN  Put(b5, Chksum.start, ChkBytes(b5, d.chk))

USTAR_NUL == <<117, 115, 116, 97, 114, 0>>

NameSamples == {<<>>, <<97>>, <<200>>, <<255, 128, 97>>}

\* "+17", "-7", " 7", "8" besides the well-formed size fields
SizeSamples ==
    {<<>>, SizeField(0), SizeField(513), <<43, 49, 55>>, <<45, 55>>,
     <<32, 55>>, <<56>>}

ChkSamples == {"unsigned", "signed", "wrong", "plus", "negative", "empty",
               "spaces", "space_end", "letter", "highbit"}

MagicSamples == {HEADER_MAGIC, USTAR_NUL, <<0, 0, 0, 0, 0, 0>>,
                 <<85, 83, 84, 65, 82, 32>>}

FlagSamples == {0, 48}

PadSamples == {0, 1}

DecodeInputs ==
    { MkBlock([name |-> n, size |-> z, flag |-> f, magic |-> m, pad |-> p,
               chk |-> c]) :
        n \in NameSamples, z \in SizeSamples, f \in FlagSamples,
        m \in MagicSamples, p \in PadSamples, c \in ChkSamples }

NoResult == [offset |-> 0, check |-> [tag |-> "None", not_ustar |-> FALSE],
             size |-> 0, typeflag |-> "Unknown", name |-> <<>>,
             linkname |-> <<>>, uname |-> <<>>, gname |-> <<>>, mode |-> 0,
             mtime |-> 0]

-----------------------------------------------------------------------------
(* Decoding one block: PosixHeader::from then Header::from *)

StreamIdle ==
    /\ source = <<>>
    /\ tail = 0
    /\ pos = 0
    /\ offset = 0
    /\ iter_valid_headers = 0
    /\ iter_invalid_headers = 0
    /\ iter_zeroes = 0
    /\ panicked = FALSE
    /\ last = "init"
    /\ yielded = <<>>
    /\ nones = 0
    /\ reads = 0
    /\ decoded = <<>>

\* offset_by_blocks not applied
NotApplied == 0 - 1

BlocksIdle ==
    /\ size_arg = 0
    /\ blocks_offset = NotApplied

InitDecode ==
    /\ block \in DecodeInputs
    /\ result = NoResult
    /\ StreamIdle
    /\ BlocksIdle

Decode ==
    /\ result = NoResult
    /\ result' = HeaderFrom(0, block)
    /\ UNCHANGED <<block, streamVars, blocksVars>>

NextDecode == Decode

SpecDecode == InitDecode /\ [][NextDecode]_vars

-----------------------------------------------------------------------------
(* Sources: sequences of blocks, named by kind *)

\* u8::MAX, the largest value of iter_zeroes
U8_MAX == 255

MaxBlocks == 3

MaxEntries == 4

MaxFails == 2

\* a checksummed block with the given size field, magic and checksum filling
Block(sz, magic, chk) ==
    MkBlock([name |-> <<97>>, size |-> sz, flag |-> 48, magic |-> magic,
             pad |-> 0, chk |-> chk])

BLOCK_V0 == Block(SizeField(0), HEADER_MAGIC, "unsigned")

BLOCK_V100 == Block(SizeField(100), HEADER_MAGIC, "unsigned")

BLOCK_V512 == Block(SizeField(512), HEADER_MAGIC, "unsigned")

BLOCK_V513 == Block(SizeField(513), HEADER_MAGIC, "unsigned")

BLOCK_I == Block(SizeField(0), HEADER_MAGIC, "wrong")

BLOCK_N == Block(SizeField(512), <<0, 0, 0, 0, 0, 0>>, "unsigned")

BLOCK_P == Block(SizeField(0), HEADER_MAGIC, "empty")

BlockOf(k) ==
    CASE k = "V0" -> BLOCK_V0
      [] k = "V100" -> BLOCK_V100
      [] k = "V512" -> BLOCK_V512
      [] k = "V513" -> BLOCK_V513
      [] k = "I" -> BLOCK_I
      [] k = "N" -> BLOCK_N
      [] k = "P" -> BLOCK_P
      [] k = "Z" -> ZeroBlock

StreamKinds == {"V0", "V512", "Z", "I", "N", "P"}

\* every sequence of at most MaxBlocks blocks
ArbitrarySources ==
    UNION { [1..n -> StreamKinds] : n \in 0..MaxBlocks }

EntrySizes == {0, 100, 512, 513}

EntryKind(n) ==
    CASE n = 0 -> "V0" [] n = 100 -> "V100" [] n = 512 -> "V512"
      [] n = 513 -> "V513"

\* payload blocks hold bytes that would decode as a Valid header if read
PayloadKind == "V0"

Payload(n) == [i \in 1..((n + BLOCK_SIZE - 1) \div BLOCK_SIZE) |-> PayloadKind]

EntryLists == UNION { [1..n -> EntrySizes] : n \in 0..MaxEntries }

\* header, padded payload, ..., then the two zero blocks of the trailer
RECURSIVE Archive(_)
Archive(e) ==
    IF e = <<>> THEN <<"Z", "Z">>
    ELSE <<EntryKind(e[1])>> \o Payload(e[1]) \o Archive(Tail(e))

ArchiveTable == [e \in EntryLists |-> Archive(e)]

Archives == { ArchiveTable[e] : e \in EntryLists }

\* more zero blocks than the u8 counter iter_zeroes can count
LongZeroRun == [i \in 1..(U8_MAX + 2) |-> "Z"]

TailSamples == {0, 1}

\* bytes the source holds
SourceLen == Len(source) * BLOCK_SIZE + tail

\* byte k of the source (k < SourceLen); the bytes after the last whole
\* block are 'A'
SourceByte(k) ==
    IF k < Len(source) * BLOCK_SIZE
    THEN BlockOf(source[(k \div BLOCK_SIZE) + 1])[k % BLOCK_SIZE]
    ELSE 65

\* the 512 bytes read_exact puts in the buffer when reading at p
ReadAt(p) ==
    IF p % BLOCK_SIZE = 0
    THEN BlockOf(source[(p \div BLOCK_SIZE) + 1])
    ELSE [i \in 0..(BLOCK_SIZE - 1) |-> SourceByte(p + i)]

-----------------------------------------------------------------------------
(* HeadersParser: common/read.rs *)

\* HeadersParser::from: seek to the start, zero offset and counters
Init ==
    /\ source \in ArbitrarySources \cup Archives \cup {LongZeroRun}
    /\ tail \in TailSamples
    /\ pos = 0
    /\ offset = 0
    /\ iter_valid_headers = 0
    /\ iter_invalid_headers = 0
    /\ iter_zeroes = 0
    /\ panicked = FALSE
    /\ last = "init"
    /\ yielded = <<>>
    /\ nones = 0
    /\ reads = 0
    /\ decoded = <<>>
    /\ block = ZeroBlock
    /\ result = NoResult
    /\ BlocksIdle

\* Stats that leaves iter_zeroes alone on a zero block
Stats_zeroes_not_counted(check) ==
    CASE check.tag = "Valid" ->
            [valid |-> iter_valid_headers + 1,
             invalid |-> IF iter_zeroes > 0 THEN iter_invalid_headers + 1
                         ELSE iter_invalid_headers,
             zeroes |-> iter_zeroes]
      [] check.tag = "Invalid" ->
            [valid |-> iter_valid_headers,
             invalid |-> iter_invalid_headers + 1,
             zeroes |-> iter_zeroes]
      [] check.tag = "Zeroes" ->
            [valid |-> iter_valid_headers,
             invalid |-> IF iter_zeroes > 2 THEN iter_invalid_headers + 1
                         ELSE iter_invalid_headers,
             zeroes |-> iter_zeroes]

\* Stats that counts every zero block as invalid as well
Stats_zero_is_invalid(check) ==
    CASE check.tag = "Valid" ->
            [valid |-> iter_valid_headers + 1,
             invalid |-> IF iter_zeroes > 0 THEN iter_invalid_headers + 1
                         ELSE iter_invalid_headers,
             zeroes |-> iter_zeroes]
      [] check.tag = "Invalid" ->
            [valid |-> iter_valid_headers,
             invalid |-> iter_invalid_headers + 1,
             zeroes |-> iter_zeroes]
      [] check.tag = "Zeroes" ->
            [valid |-> iter_valid_headers,
             invalid |-> iter_invalid_headers + 1,
             zeroes |-> iter_zeroes + 1]

\* "Now lets collect some stats": the counters after the match on h.check
Stats(check) ==
    CASE check.tag = "Valid" ->
            [valid |-> iter_valid_headers + 1,
             invalid |-> IF iter_zeroes > 0 THEN iter_invalid_headers + 1
                         ELSE iter_invalid_headers,
             zeroes |-> iter_zeroes]
      [] check.tag = "Invalid" ->
            [valid |-> iter_valid_headers,
             invalid |-> iter_invalid_headers + 1,
             zeroes |-> iter_zeroes]
      [] check.tag = "Zeroes" ->
            [valid |-> iter_valid_headers,
             invalid |-> IF iter_zeroes > 2 THEN iter_invalid_headers + 1
                         ELSE iter_invalid_headers,
             zeroes |-> iter_zeroes + 1]

\* next passing on whatever next_any returned
is_valid_unfiltered(h) == h.check.tag \in {"Valid", "Invalid", "Zeroes"}

\* Iterator::next: `if let HeaderCheck::Valid = h.check`
is_valid(h) == h.check = Valid

\* calls of next that returned None because read_exact failed
FailedReads ==
    nones - (reads - Len(yielded) - (IF panicked THEN 1 ELSE 0))

\* read_exact fails and its error is unwrapped instead of turned into None
NextReadFails_unwraps ==
    /\ ~panicked
    /\ pos + BLOCK_SIZE > SourceLen
    /\ FailedReads < MaxFails
    /\ \E p \in pos..(IF SourceLen > pos THEN SourceLen ELSE pos) : pos' = p
    /\ last' = "Panic"
    /\ panicked' = TRUE
    /\ UNCHANGED <<source, tail, offset, iter_valid_headers,
                   iter_invalid_headers, iter_zeroes, nones, yielded,
                   reads, decoded, block, result, blocksVars>>

\* read_exact fails: next_any returns None through `?`, and so does next.
\* How many of the remaining bytes a failed read_exact consumed is
\* unspecified.
NextReadFails ==
    /\ ~panicked
    /\ pos + BLOCK_SIZE > SourceLen
    /\ FailedReads < MaxFails
    /\ \E p \in pos..(IF SourceLen > pos THEN SourceLen ELSE pos) : pos' = p
    /\ last' = "NoneReadFailed"
    /\ nones' = nones + 1
    /\ UNCHANGED <<source, tail, offset, iter_valid_headers,
                   iter_invalid_headers, iter_zeroes, panicked, yielded,
                   reads, decoded, block, result, blocksVars>>

\* a block is read and PosixHeader::from unwinds in validate, after
\* `self.offset += BLOCK_SIZE`
NextPanics ==
    /\ ~panicked
    /\ pos + BLOCK_SIZE <= SourceLen
    /\ \E h \in {HeaderFrom(offset + BLOCK_SIZE, ReadAt(pos))} :
           /\ h.check = Panic
           /\ pos' = pos + BLOCK_SIZE
           /\ offset' = offset + BLOCK_SIZE
           /\ panicked' = TRUE
           /\ last' = "Panic"
           /\ reads' = reads + 1
           /\ decoded' = Append(decoded, [at |-> pos, check |-> "Panic"])
    /\ UNCHANGED <<source, tail, iter_valid_headers, iter_invalid_headers,
                   iter_zeroes, yielded, nones, block, result, blocksVars>>

\* a block is read and decoded: next_any returns Some(h); next returns
\* Some(h) when h.check is Valid and None otherwise
NextDecodes ==
    /\ ~panicked
    /\ pos + BLOCK_SIZE <= SourceLen
    /\ \E h \in {HeaderFrom(offset + BLOCK_SIZE, ReadAt(pos))} :
       LET shift == offset_by_blocks(h.size)
           st == Stats(h.check)
       IN  /\ h.check # Panic
           /\ ~(h.check = Zeroes /\ iter_zeroes = U8_MAX)
           /\ offset' = offset + BLOCK_SIZE + shift
           /\ pos' = pos + BLOCK_SIZE + shift
           /\ iter_valid_headers' = st.valid
           /\ iter_invalid_headers' = st.invalid
           /\ iter_zeroes' = st.zeroes
           /\ reads' = reads + 1
           /\ decoded' = Append(decoded, [at |-> pos, check |-> h.check.tag])
           /\ IF is_valid(h)
              THEN /\ last' = "Some"
                   /\ yielded' = Append(yielded, h)
                   /\ nones' = nones
              ELSE /\ last' = "NoneNotValid"
                   /\ yielded' = yielded
                   /\ nones' = nones + 1
    /\ UNCHANGED <<source, tail, panicked, block, result, blocksVars>>

\* a zero block is read when iter_zeroes is u8::MAX: `self.iter_zeroes += 1`
\* overflows after the offset, the seek and the invalid counter are done.
\* A build with overflow checks unwinds there, one without wraps to 0.
NextZeroesOverflow ==
    /\ ~panicked
    /\ pos + BLOCK_SIZE <= SourceLen
    /\ iter_zeroes = U8_MAX
    /\ \E h \in {HeaderFrom(offset + BLOCK_SIZE, ReadAt(pos))} :
           /\ h.check = Zeroes
           /\ offset' = offset + BLOCK_SIZE + offset_by_blocks(h.size)
           /\ pos' = pos + BLOCK_SIZE + offset_by_blocks(h.size)
           /\ iter_invalid_headers' = iter_invalid_headers + 1
           /\ reads' = reads + 1
           /\ decoded' = Append(decoded, [at |-> pos, check |-> "Zeroes"])
           /\ \E overflow_checks \in BOOLEAN :
                 IF overflow_checks
                 THEN /\ panicked' = TRUE
                      /\ last' = "Panic"
                      /\ UNCHANGED <<iter_zeroes, nones>>
                 ELSE /\ iter_zeroes' = 0
                      /\ last' = "NoneNotValid"
                      /\ nones' = nones + 1
                      /\ UNCHANGED panicked
    /\ UNCHANGED <<source, tail, iter_valid_headers, yielded, block, result,
                   blocksVars>>

Next == NextReadFails \/ NextPanics \/ NextDecodes \/ NextZeroesOverflow

Spec == Init /\ [][Next]_vars

-----------------------------------------------------------------------------
(* Draining the iterator: next is called until it first returns None *)

\* the call of next that just returned is the first one to return None
Drained == nones = 1 /\ last \in {"NoneNotValid", "NoneReadFailed"}

\* blocks that were read and decoded as something other than Valid
NotValidDecoded == reads - Len(yielded) - (IF panicked THEN 1 ELSE 0)

ScenarioA == <<512, 100, 513, 100>>

ScenarioC == <<"V0", "Z", "Z">>

ScenarioD == <<"V0", "Z", "V0">>

\* C1: for an archive of N Valid entries, each followed by its payload
\* padded to whole blocks, and then the zero trailer, draining the iterator
\* yields exactly N headers, in source order, each Valid and each with the
\* size its header declares.
C1_ArchiveYieldsItsEntries ==
    Drained =>
      \A e \in EntryLists :
        source = ArchiveTable[e] =>
            /\ Len(yielded) = Len(e)
            /\ \A i \in 1..Len(yielded) :
                  /\ yielded[i].check = Valid
                  /\ yielded[i].size = e[i]
            /\ \A i, j \in 1..Len(yielded) :
                  i < j => yielded[i].offset < yielded[j].offset

\* the four entries of scenario A (sizes = 512, < 512, > 512, < 512) drained
C1_Witness ==
    /\ source = ArchiveTable[ScenarioA]
    /\ Drained
    /\ Len(yielded) = 4

\* C2: every header next returns as Some has check = Valid; a block decoded
\* as Invalid or Zeroes is never yielded, after any sequence of pulls.  (The
\* offset of a yielded header divided by 512 is the 1-based index of its
\* block in the source.)
C2_OnlyValidYielded ==
    \A i \in 1..Len(yielded) :
        /\ yielded[i].check = Valid
        /\ source[yielded[i].offset \div BLOCK_SIZE]
              \in {"V0", "V100", "V512", "V513"}

\* a header was yielded and a later block that is not Valid was read
C2_Witness ==
    /\ Len(yielded) >= 1
    /\ last = "NoneNotValid"
    /\ reads > Len(yielded)

\* C3: once next has returned None because the decoded block was not Valid,
\* no later call of next reads another block or yields a header: the offset
\* and the counters stay as they were after the terminating block.
C3_NoReadAfterTermination ==
    [][NotValidDecoded >= 1 =>
          /\ reads' = reads
          /\ yielded' = yielded
          /\ offset' = offset
          /\ iter_valid_headers' = iter_valid_headers
          /\ iter_invalid_headers' = iter_invalid_headers
          /\ iter_zeroes' = iter_zeroes]_vars

\* C4 as stated: draining one Valid header followed by two zero blocks
\* yields 1 header and leaves zero_count = 2 and invalid_count = 0.
C4_Original ==
    (source = ScenarioC /\ Drained) =>
        /\ Len(yielded) = 1
        /\ iter_zeroes = 2
        /\ iter_invalid_headers = 0

\* C4 amended: draining one Valid header followed by two zero blocks yields
\* exactly 1 header and leaves zero_count = 1 and invalid_count = 0: the
\* drain stops at the first zero block and the second one is not read.
C4_DrainStopsAtFirstZero ==
    (source = ScenarioC /\ Drained) =>
        /\ Len(yielded) = 1
        /\ iter_zeroes = 1
        /\ iter_invalid_headers = 0
        /\ reads = 2

C4_Witness == source = ScenarioC /\ Drained /\ Len(yielded) = 1

\* C5 as stated: draining a Valid header, a zero block and another Valid
\* header yields only the first header and leaves invalid_count >= 1.
C5_Original ==
    (source = ScenarioD /\ Drained) =>
        /\ Len(yielded) = 1
        /\ iter_invalid_headers >= 1

\* C5 amended: draining a Valid header, a zero block and another Valid
\* header yields only the first header and leaves invalid_count = 0 and
\* zero_count = 1: the drain stops at the zero block, so the Valid header
\* after it is not read.
C5_DrainStopsBeforeSecondValid ==
    (source = ScenarioD /\ Drained) =>
        /\ Len(yielded) = 1
        /\ iter_invalid_headers = 0
        /\ iter_zeroes = 1
        /\ iter_valid_headers = 1
        /\ reads = 2

C5_Witness == source = ScenarioD /\ Drained /\ iter_zeroes = 1

-----------------------------------------------------------------------------
(* Decoding, stated on the bytes of the block *)

Decoded == result # NoResult

\* the bytes lo..hi-1 of b up to the first NUL
FieldText(b, lo, hi) ==
    LET n == CHOOSE k \in 0..(hi - lo) :
                /\ \A j \in 0..(k - 1) : b[lo + j] # 0
                /\ k = hi - lo \/ b[lo + k] = 0
    IN  [i \in 1..n |-> b[lo + i - 1]]

ChkText == FieldText(block, 148, 156)

\* an optional sign and then one or more of the digits 0..7
IsSignedOctal(t) ==
    LET digits == IF Len(t) > 0 /\ t[1] \in {43, 45} THEN Tail(t) ELSE t
    IN  /\ Len(digits) > 0
        /\ \A i \in 1..Len(digits) : digits[i] \in 48..55

RECURSIVE DigitsValue(_)
DigitsValue(t) ==
    IF t = <<>> THEN 0
    ELSE 8 * DigitsValue(SubSeq(t, 1, Len(t) - 1)) + (t[Len(t)] - 48)

SignedOctalValue(t) ==
    IF t[1] = 45 THEN 0 - DigitsValue(Tail(t))
    ELSE IF t[1] = 43 THEN DigitsValue(Tail(t))
    ELSE DigitsValue(t)

\* some byte of the 500 checksummed bytes is not zero
HeadNonZero == \E i \in 0..499 : block[i] # 0

UnsignedSum == ByteSum(block, 0, 500, FALSE)

SignedSum == ByteSum(block, 0, 500, TRUE)

\* the checksum field holds a non-negative octal number equal to one of the
\* two sums
ChecksumMatches ==
    /\ IsSignedOctal(ChkText)
    /\ SignedOctalValue(ChkText) >= 0
    /\ SignedOctalValue(ChkText) \in {UnsignedSum, SignedSum}

MagicBytes == <<block[257], block[258], block[259], block[260], block[261],
                block[262]>>

USTAR_SPACE == <<117, 115, 116, 97, 114, 32>>

\* C6: for a block that is not all zero and whose checksum field does not
\* parse as signed octal, or parses to a negative value, decoding does not
\* abort and gives Invalid{not_ustar:false}.
C6_BadChecksumFieldIsInvalid ==
    (/\ Decoded
     /\ HeadNonZero
     /\ \/ ~IsSignedOctal(ChkText)
        \/ SignedOctalValue(ChkText) < 0)
    => result.check = Invalid(FALSE)

\* C7: for a block that is not zero whose checksum field holds c >= 0, the
\* checksum is accepted (the verdict then rests on the magic) when c is the
\* unsigned sum or the signed-byte sum of bytes 0..499 with the checksum
\* field counted as spaces, either one alone; when c is neither, the verdict
\* is Invalid{not_ustar:false} whatever the magic holds.
C7_EitherSumAccepted ==
    (/\ Decoded
     /\ HeadNonZero
     /\ IsSignedOctal(ChkText)
     /\ SignedOctalValue(ChkText) >= 0)
    => IF SignedOctalValue(ChkText) \in {UnsignedSum, SignedSum}
       THEN result.check \in {Valid, Invalid(TRUE)}
       ELSE result.check = Invalid(FALSE)

\* a name with high-bit bytes and a checksum equal to the signed sum only
C7_Witness ==
    /\ Decoded
    /\ IsSignedOctal(ChkText)
    /\ SignedOctalValue(ChkText) = SignedSum
    /\ SignedSum # UnsignedSum
    /\ result.check = Valid

\* C8: Valid is given only to blocks whose stored checksum matches and whose
\* magic field, bytes 257..262, is the ustar marker; a block that is not
\* zero whose checksum matches and whose magic differs gets
\* Invalid{not_ustar:true}.
C8_ValidNeedsChecksumAndMagic ==
    /\ (Decoded /\ result.check = Valid) =>
          (ChecksumMatches /\ MagicBytes = USTAR_SPACE)
    /\ (Decoded /\ HeadNonZero /\ ChecksumMatches /\ MagicBytes # USTAR_SPACE)
          => result.check = Invalid(TRUE)

\* a V7 header: matching checksum, magic field of NULs
C8_Witness ==
    /\ Decoded
    /\ ChecksumMatches
    /\ MagicBytes = <<0, 0, 0, 0, 0, 0>>
    /\ result.check = Invalid(TRUE)

\* C9: a header with a matching checksum is Valid when its magic is 'ustar'
\* followed by NUL and when it is 'ustar' followed by a space; a magic that
\* does not start with 'ustar' gives Invalid{not_ustar:true}.
C9_UstarNulOrSpace ==
    (Decoded /\ HeadNonZero /\ ChecksumMatches) =>
        /\ MagicBytes \in {USTAR_NUL, USTAR_SPACE} => result.check = Valid
        /\ SubSeq(MagicBytes, 1, 5) # SubSeq(USTAR_SPACE, 1, 5)
              => result.check = Invalid(TRUE)

\* C10: decoding gives Zeroes exactly when every byte of the 512-byte block
\* is zero.
C10_ZeroesIffAllZero ==
    Decoded =>
        (result.check = Zeroes <=> \A i \in 0..511 : block[i] = 0)

-----------------------------------------------------------------------------
(* offset_by_blocks on its own: common/mod.rs *)

MaxBytesCount == 1100

\* byte counts near the top of the range the model's integers reach
LargeCounts ==
    {1073741823, 1073741824, 1073741825, 2147482111, 2147482112,
     2147482113, 2147482624}

BytesCounts == (0..MaxBytesCount) \cup LargeCounts

InitBlocks ==
    /\ size_arg \in BytesCounts
    /\ blocks_offset = NotApplied
    /\ block = ZeroBlock
    /\ result = NoResult
    /\ StreamIdle

ApplyOffsetByBlocks ==
    /\ blocks_offset = NotApplied
    /\ blocks_offset' = offset_by_blocks(size_arg)
    /\ UNCHANGED <<size_arg, block, result, streamVars>>

NextBlocks == ApplyOffsetByBlocks

SpecBlocks == InitBlocks /\ [][NextBlocks]_vars

Applied == blocks_offset # NotApplied

\* C11: offset_by_blocks(n) is n rounded up to the next multiple of 512: it is
\* a multiple of 512, at least n and less than n + 512, and it maps 0 to 0,
\* 511 to 512, 512 to 512 and 513 to 1024.
C11_RoundsUpToBlock ==
    Applied =>
        /\ blocks_offset = ((size_arg + 511) \div 512) * 512
        /\ blocks_offset % 512 = 0
        /\ blocks_offset >= size_arg
        /\ blocks_offset < size_arg + 512
        /\ size_arg = 0 => blocks_offset = 0
        /\ size_arg = 511 => blocks_offset = 512
        /\ size_arg = 512 => blocks_offset = 512
        /\ size_arg = 513 => blocks_offset = 1024

C11_Witness == Applied /\ size_arg = 513 /\ blocks_offset = 1024

-----------------------------------------------------------------------------
(* Header offsets: common/read.rs, common/meta.rs *)

IsValidRead(d) == d.check = "Valid"

\* the blocks decoded as Valid so far, in the order they were read
ValidReads == SelectSeq(decoded, IsValidRead)

\* C12: every header handed out carries the absolute byte position at which
\* its 512-byte block starts in the source (0 for the first block), and a
\* header already handed out keeps its offset.
C12_OffsetIsBlockStart ==
    /\ Len(yielded) = Len(ValidReads)
    /\ \A i \in 1..Len(yielded) : yielded[i].offset = ValidReads[i].at

-----------------------------------------------------------------------------
(* Header fields: common/meta.rs *)

\* the header was returned: decoding did not abort
Returned == Decoded /\ result.check.tag # "Panic"

\* str is the text t, character by character where t is ASCII
IsTextOf(str, t) ==
    /\ Len(str) = Len(t)
    /\ \A i \in 1..Len(t) : t[i] < 128 => str[i] = t[i]

\* v is the value of the octal digits t, when t is octal digits
IsOctalOf(v, t) ==
    (Len(t) > 0 /\ \A i \in 1..Len(t) : t[i] \in 48..55) => v = DigitsValue(t)

\* C13: the header decoded from a block carries in name, linkname, uname and
\* gname the text of bytes 0..100, 157..257, 265..297 and 297..329 up to the
\* first NUL, and in mode and mtime the octal values of bytes 100..108 and
\* 136..148; they are not left empty or zero when the block holds values.
C13_FieldsDecoded ==
    Returned =>
        /\ IsTextOf(result.name, FieldText(block, 0, 100))
        /\ IsTextOf(result.linkname, FieldText(block, 157, 257))
        /\ IsTextOf(result.uname, FieldText(block, 265, 297))
        /\ IsTextOf(result.gname, FieldText(block, 297, 329))
        /\ IsOctalOf(result.mode, FieldText(block, 100, 108))
        /\ IsOctalOf(result.mtime, FieldText(block, 136, 148))

-----------------------------------------------------------------------------
(* The exhausted source: common/read.rs *)

\* fewer than 512 bytes remain at the read position
Exhausted == SourceLen - pos < 512

\* C14: when fewer than 512 bytes remain at the read position (an empty
\* source included), a call of next returns None, with no abort and no header,
\* and fewer than 512 bytes remain afterwards as well, so every later call
\* returns None too.
C14_ExhaustedIsAbsorbing ==
    [][Exhausted =>
          /\ last' = "NoneReadFailed"
          /\ nones' = nones + 1
          /\ yielded' = yielded
          /\ ~panicked'
          /\ Exhausted']_vars

C14_Witness ==
    /\ Exhausted
    /\ FailedReads >= 2
    /\ last = "NoneReadFailed"
    /\ tail > 0
    /\ Len(yielded) >= 1

-----------------------------------------------------------------------------
(* Offset and read position: common/read.rs *)

\* the size the block of kind k declares in its size field
KindSize(k) ==
    CASE k = "V0" -> 0 [] k = "V100" -> 100 [] k = "V512" -> 512
      [] k = "V513" -> 513 [] k = "N" -> 512 [] k = "I" -> 0
      [] k = "Z" -> 0 [] k = "P" -> 0

RoundUp(n) == ((n + 511) \div 512) * 512

\* this step read a block
ReadsBlock == reads' = reads + 1

\* this step read a block and decoded it to a verdict
DecodesBlock == ReadsBlock /\ decoded'[Len(decoded')].check # "Panic"

\* where a pull that read the block at pos and decoded it leaves the stream
AfterEntry == pos + 512 + RoundUp(KindSize(source[pos \div 512 + 1]))

\* C15 as stated: a pull that reads a block at p and decodes size s leaves the
\* offset and the read position at p + 512 + ceil(s/512)*512; after any pull
\* the offset is a multiple of 512 and equals the read position, and it has
\* grown on every pull that read a block.
C15_Original ==
    [][/\ DecodesBlock => offset' = AfterEntry /\ pos' = AfterEntry
       /\ offset' % 512 = 0
       /\ offset' = pos'
       /\ ReadsBlock => offset' > offset]_vars

\* C15, amended: a pull that reads a block at p and decodes size s leaves the
\* offset and the read position at p + 512 + ceil(s/512)*512, whatever the
\* verdict, and a pull that aborts while validating leaves both at p + 512;
\* the offset is always a multiple of 512 and grows by at least 512 on every
\* pull that read a block; it equals the read position until a read fails,
\* and after that the read position lies less than 512 bytes past it.
C15_OffsetTracksSource ==
    /\ [](/\ offset % 512 = 0
          /\ offset <= pos
          /\ pos - offset < 512
          /\ FailedReads = 0 => pos = offset)
    /\ [][/\ DecodesBlock => offset' = AfterEntry /\ pos' = AfterEntry
          /\ (ReadsBlock /\ ~DecodesBlock) =>
                 offset' = pos + 512 /\ pos' = pos + 512
          /\ ReadsBlock => offset' >= offset + 512]_vars

\* a short tail was consumed by a failed read after an Invalid block with a
\* payload had been skipped
C15_Witness ==
    /\ \E i \in 1..Len(decoded) :
           /\ decoded[i].check = "Invalid"
           /\ source[decoded[i].at \div 512 + 1] = "N"
    /\ FailedReads >= 1
    /\ pos > offset

-----------------------------------------------------------------------------
(* Zero blocks in the statistics: common/read.rs *)

\* the latest block read was decoded as Zeroes by this step
DecodesZeroes == ReadsBlock /\ decoded'[Len(decoded')].check = "Zeroes"

\* how many of the blocks read latest, one after the other, were Zeroes
ZeroRun ==
    LET others == {i \in 1..Len(decoded) : decoded[i].check # "Zeroes"}
        recent == IF others = {} THEN 0
                  ELSE CHOOSE i \in others : \A j \in others : j <= i
    IN  Len(decoded) - recent

\* C16: a pull that decodes Zeroes adds 1 to zero_count, and adds 1 to
\* invalid_count exactly when the block is the third or a later one of a run
\* of consecutive zero blocks; the first two of a run leave invalid_count
\* as it was.
C16_ThirdZeroIsInvalid ==
    [][DecodesZeroes =>
          /\ iter_zeroes' = iter_zeroes + 1
          /\ ZeroRun >= 2 => iter_invalid_headers' = iter_invalid_headers + 1
          /\ ZeroRun < 2 => iter_invalid_headers' = iter_invalid_headers]_vars

-----------------------------------------------------------------------------
(* Malformed size fields: common/meta.rs, common/mod.rs *)

SizeText == FieldText(block, 124, 136)

\* C17: when the size field is empty or holds a character other than the
\* octal digits 0..7 (a space, '8', '9', a letter, a leading sign), the header
\* is returned with size 0.
C17_MalformedSizeIsZero ==
    (/\ Returned
     /\ SizeText = <<>> \/ \E i \in 1..Len(SizeText) : SizeText[i] \notin 48..55)
        => result.size = 0

-----------------------------------------------------------------------------
(* Draining a finite source: common/read.rs *)

\* C18: on a finite source of length L, calling next again and again
\* eventually returns None: at most floor(L / 512) calls return a header, and
\* as long as no None has been returned the next call can be made and
\* returns (the sequence of calls is not cut short by an abort).
C18_EventuallyNone ==
    /\ Len(yielded) <= SourceLen \div 512
    /\ nones = 0 => ~panicked

-----------------------------------------------------------------------------
(* Counters against the blocks decoded: common/read.rs *)

\* how many blocks have been decoded with the verdict named tag
DecodedAs(tag) == Cardinality({i \in 1..Len(decoded) : decoded[i].check = tag})

\* C19: zero_count is the number of blocks decoded as Zeroes and valid_count
\* the number decoded as Valid, which is the number of headers yielded, on
\* streams of any length, 256 zero blocks and more included: the zero
\* counter neither wraps nor aborts the pull.
C19_CountersCountBlocks ==
    /\ iter_zeroes = DecodedAs("Zeroes")
    /\ iter_valid_headers = DecodedAs("Valid")
    /\ iter_valid_headers = Len(yielded)

-----------------------------------------------------------------------------
(* What a pull changes: common/read.rs *)

counters == <<iter_valid_headers, iter_invalid_headers, iter_zeroes>>

\* C20: a pull whose read fails returns None and leaves the offset and the
\* three counters as they were; a pull that read a full block changes the
\* offset and at least one of the counters.
C20_FailedPullChangesNothing ==
    [][/\ ~ReadsBlock =>
              /\ last' = "NoneReadFailed"
              /\ offset' = offset
              /\ counters' = counters
       /\ ReadsBlock =>
              /\ offset' # offset
              /\ counters' # counters]_vars

====
